---------------------------- MODULE Spec2Model ----------------------------
(***************************************************************************)
(* Model of deep_research_openai.py: a Streamlit script that runs a        *)
(* research agent (which calls the deep_research tool, one HTTP POST to    *)
(* the Firecrawl deep-research endpoint) and then an elaboration agent.    *)
(*                                                                         *)
(* One script run (Streamlit executes the file top to bottom on every      *)
(* interaction) is one action up to the point where it blocks: the two     *)
(* Runner.run calls and the HTTP call are the suspension points.           *)
(*                                                                         *)
(* The agent runtime (agents.Runner) and the language model behind it are  *)
(* an external library.  An agent invocation either returns some text or   *)
(* raises; the research agent is modelled by its configuration (lines      *)
(* 114-124): it has the one tool deep_research and instruction 1 makes it  *)
(* call that tool with max_depth=3, time_limit=180, max_urls=10 before it  *)
(* writes its report.                                                      *)
(***************************************************************************)
EXTENDS Integers, Sequences, FiniteSets, TLC

VARIABLES
    secrets,            \* st.secrets: OPENAI_API_KEY / FIRECRAWL_API_KEY, <<>> when not set
    environ,            \* os.environ FIRECRAWL_API_KEY ("" when not set)
    session,            \* st.session_state: openai_api_key, firecrawl_api_key
    research_topic,     \* the topic text input of the current script run
    clicked,            \* st.button("Start Research") returned True in this script run
    state,              \* Idle, Researching, Elaborating, Done, Failed
    pc,                 \* where the script run is suspended
    agentCalls,         \* Runner.run invocations of this script run, per agent
    toolCalls,          \* the deep_research invocations of this run (their arguments)
    requests,           \* the HTTP requests sent in this run
    httpOutcome,        \* what requests.post met: <<>> or <<outcome>>
    toolResult,         \* what deep_research returned: <<>> or <<dict>>
    toolEscaped,        \* an exception that left deep_research: <<>> or <<exception>>
    initial_report,     \* research_result.final_output: <<>> or <<text>>
    elaboration_input,  \* the text handed to the elaboration agent: <<>> or <<record>>
    elaboration_output, \* elaboration_result.final_output: <<>> or <<text>>
    enhanced_report,    \* what run_research_process returned: <<>> or <<text>>
    download,           \* the data of st.download_button: <<>> or <<text>>
    fault,              \* the exception the handler caught: <<>> or <<record>>
    sink                \* what the script run wrote to the page, in order

vars == <<secrets, environ, session, research_topic, clicked, state, pc,
          agentCalls, toolCalls, requests, httpOutcome, toolResult, toolEscaped,
          initial_report, elaboration_input, elaboration_output, enhanced_report,
          download, fault, sink>>

----------------------------------------------------------------------------
(* Bounds and input sets                                                   *)

\* longest sources list the service sends back
MaxSources == 2

None == <<>>
Some(v) == <<v>>

OpenAIKeys == {"", "sk-ui"}
FirecrawlKeys == {"", "fc-ui"}
Topics == {"", "ai", "quantum computing"}
\* the query the language model passes to the tool
Queries == {"ai", "quantum computing"}
\* texts an agent invocation returns as final_output
Texts == {"", "report A"}
\* str(e) of an exception raised by Runner.run
FaultMessages == {"Error code: 503", "Max turns (10) exceeded"}

----------------------------------------------------------------------------
(* Python values: the result of resp.json() and the members of the result  *)
(* dict.                                                                   *)

\* (each type keeps its value in a field of its own, so that two values of
\* different types are unequal by their fields alone)
PyNone == [t |-> "NoneType"]
PyStr(s) == [t |-> "str", str |-> s]
PyList(s) == [t |-> "list", list |-> s]
PyDict(f) == [t |-> "dict", dict |-> f]
EmptyDict == PyDict(<<>>)

\* bool(x) of a str
Truthy(s) == s # ""

\* a or b, of two str
PyOr(a, b) == IF Truthy(a) THEN a ELSE b

\* d.get(k, default) of a dict
DictGet(d, k, default) == IF k \in DOMAIN d.dict THEN d.dict[k] ELSE default

\* whether len(x) is defined
HasLen(x) == x.t \in {"str", "list", "dict"}

\* len(x) of a str, list or dict
PyLen(x) ==
    IF x.t = "dict" THEN Cardinality(DOMAIN x.dict)
    ELSE IF x.t = "list" THEN Len(x.list)
    ELSE Len(x.str)


----------------------------------------------------------------------------
(* The research service's answers                                          *)

\* 302 stands for a 3xx that requests does not follow (one with no Location)
Statuses == {200, 302, 404, 500}

RawBody(text) == [text |-> text, json |-> None]
JsonBody(text, j) == [text |-> text, json |-> Some(j)]

\* the i-th entry of a sources list
SourceEntry(i) == PyDict([url |-> PyStr("https://s" \o ToString(i))])

SourcesList(n) == PyList([i \in 1..n |-> SourceEntry(i)])

RECURSIVE SourcesText(_)
SourcesText(n) ==
    IF n = 0 THEN ""
    ELSE SourcesText(n - 1) \o (IF n > 1 THEN ", " ELSE "")
         \o "{\"url\": \"https://s" \o ToString(n) \o "\"}"

\* {"data": {"finalAnalysis": "X", "sources": [...n entries...]}}
WellFormedBody(n) ==
    JsonBody("{\"data\": {\"finalAnalysis\": \"X\", \"sources\": [" \o SourcesText(n) \o "]}}",
             PyDict([data |-> PyDict([finalAnalysis |-> PyStr("X"),
                                      sources |-> SourcesList(n)])]))

OtherJsonBodies ==
    { JsonBody("{}", EmptyDict),
      JsonBody("{\"error\": \"Unauthorized\"}", PyDict([error |-> PyStr("Unauthorized")])),
      JsonBody("[]", PyList(<<>>)),
      JsonBody("{\"data\": null}", PyDict([data |-> PyNone])),
      JsonBody("{\"data\": \"oops\"}", PyDict([data |-> PyStr("oops")])),
      JsonBody("{\"data\": {}}", PyDict([data |-> EmptyDict])),
      JsonBody("{\"data\": {\"finalAnalysis\": null, \"sources\": []}}",
               PyDict([data |-> PyDict([finalAnalysis |-> PyNone, sources |-> PyList(<<>>)])])),
      JsonBody("{\"data\": {\"finalAnalysis\": \"X\", \"sources\": null}}",
               PyDict([data |-> PyDict([finalAnalysis |-> PyStr("X"), sources |-> PyNone])])),
      JsonBody("{\"data\": {\"sources\": \"ab\"}}",
               PyDict([data |-> PyDict([sources |-> PyStr("ab")])])) }

Bodies ==
    {RawBody(""), RawBody("<html>Bad Gateway</html>")}
    \cup {WellFormedBody(n) : n \in 0..MaxSources}
    \cup OtherJsonBodies

\* what requests.post(...) meets: no connection, no answer within the timeout,
\* or a response
HttpOutcomes ==
    {[kind |-> "ConnectionError"], [kind |-> "ReadTimeout"]}
    \cup {[kind |-> "Response", status |-> s, body |-> b] : s \in Statuses, b \in Bodies}

----------------------------------------------------------------------------
(* deep_research (lines 56-108)                                            *)

\* the arguments instruction 1 of research_agent gives the tool
max_depth == 3
time_limit == 180
max_urls == 10
\* timeout= of requests.post
timeout == 180

Exception(type, response, str) == [type |-> type, response |-> response, str |-> str]

\* the classes `except Exception` catches
ExceptionClasses ==
    {"HTTPError", "ConnectionError", "ReadTimeout", "JSONDecodeError",
     "AttributeError", "TypeError"}

Spinner(text) == [kind |-> "spinner", text |-> text]
Markdown(text) == [kind |-> "markdown", text |-> text]
Expander(text) == [kind |-> "expander", text |-> text]
StError(text) == [kind |-> "error", text |-> text]
StWarning(text) == [kind |-> "warning", text |-> text]

\* line 68 with the environment asked first
ResolveApiKeyEnvFirst(sess, env) == PyOr(env, sess.firecrawl_api_key)

\* line 68
ResolveApiKey(sess, env) == PyOr(sess.firecrawl_api_key, env)

\* lines 73-76
Headers(api_key) ==
    [Authorization |-> "Bearer " \o api_key, ContentType |-> "application/json"]

\* lines 80-81 with time_limit and max_urls exchanged
PayloadJsonSwapped(query, maxDepth, timeLimit, maxUrls) ==
    "{\"query\": \"" \o query \o "\", \"maxDepth\": " \o ToString(maxDepth)
    \o ", \"timeLimit\": " \o ToString(maxUrls)
    \o ", \"maxUrls\": " \o ToString(timeLimit) \o "}"

\* json.dumps of the payload of lines 77-82
PayloadJson(query, maxDepth, timeLimit, maxUrls) ==
    "{\"query\": \"" \o query \o "\", \"maxDepth\": " \o ToString(maxDepth)
    \o ", \"timeLimit\": " \o ToString(timeLimit)
    \o ", \"maxUrls\": " \o ToString(maxUrls) \o "}"

\* lines 86-91
PostRequest(api_key, query, maxDepth, timeLimit, maxUrls) ==
    [url |-> "https://api.firecrawl.dev/v1/deep-research",
     headers |-> Headers(api_key),
     data |-> PayloadJson(query, maxDepth, timeLimit, maxUrls),
     timeout |-> timeout]

\* lines 68-91 without the test of lines 69-71
DeepResearchBeginNoKeyTest(query, maxDepth, timeLimit, maxUrls, sess, env) ==
    [ret |-> None,
     request |-> Some(PostRequest(ResolveApiKey(sess, env), query, maxDepth, timeLimit,
                                  maxUrls)),
     sink |-> <<Spinner("Performing deep research...")>>]

\* lines 68-91: up to the point where the request is on the wire.
\* ret is the early return of lines 69-71.
DeepResearchBegin(query, maxDepth, timeLimit, maxUrls, sess, env) ==
    LET api_key == ResolveApiKey(sess, env) IN
    IF ~Truthy(api_key)
    THEN [ret |-> Some([error |-> "Missing FIRECRAWL_API_KEY", success |-> FALSE]),
          request |-> None,
          sink |-> <<StError("Missing FIRECRAWL_API_KEY")>>]
    ELSE [ret |-> None,
          request |-> Some(PostRequest(api_key, query, maxDepth, timeLimit, maxUrls)),
          sink |-> <<Spinner("Performing deep research...")>>]

\* Response.raise_for_status(): raises HTTPError for 4xx and 5xx
RaisesForStatus(status) == 400 <= status /\ status < 600

\* line 98 with len(data) for len(data.get("sources", []))
SuccessResultLenData(data) ==
    [success |-> TRUE,
     final_analysis |-> DictGet(data, "finalAnalysis", PyStr("")),
     sources_count |-> PyLen(data),
     sources |-> DictGet(data, "sources", PyList(<<>>))]

\* lines 95-100
SuccessResult(data) ==
    [success |-> TRUE,
     final_analysis |-> DictGet(data, "finalAnalysis", PyStr("")),
     sources_count |-> PyLen(DictGet(data, "sources", PyList(<<>>))),
     sources |-> DictGet(data, "sources", PyList(<<>>))]

NoAttributeGet(x) ==
    Exception("AttributeError", None, "'" \o x.t \o "' object has no attribute 'get'")

\* lines 92-100 for a response: what the try block raises or returns
TryResponse(status, body) ==
    IF RaisesForStatus(status)
    THEN [exc |-> Some(Exception("HTTPError", Some(body.text),
                                 ToString(status) \o " Error for url")),
          ret |-> None]
    ELSE IF body.json = None
    THEN [exc |-> Some(Exception("JSONDecodeError", None,
                                 "Expecting value: line 1 column 1 (char 0)")),
          ret |-> None]
    ELSE LET parsed == body.json[1] IN
         IF parsed.t # "dict" THEN [exc |-> Some(NoAttributeGet(parsed)), ret |-> None]
         ELSE LET data == DictGet(parsed, "data", EmptyDict) IN
              IF data.t # "dict" THEN [exc |-> Some(NoAttributeGet(data)), ret |-> None]
              ELSE IF ~HasLen(DictGet(data, "sources", PyList(<<>>)))
              THEN [exc |-> Some(Exception("TypeError", None,
                        "object of type '" \o DictGet(data, "sources", PyList(<<>>)).t
                        \o "' has no len()")),
                    ret |-> None]
              ELSE [exc |-> None, ret |-> Some(SuccessResult(data))]

\* lines 84-100: the try block
TryBlock(outcome) ==
    IF outcome.kind = "ConnectionError"
    THEN [exc |-> Some(Exception("ConnectionError", None,
                                 "HTTPSConnectionPool: Max retries exceeded")),
          ret |-> None]
    ELSE IF outcome.kind = "ReadTimeout"
    THEN [exc |-> Some(Exception("ReadTimeout", None,
                                 "HTTPSConnectionPool: Read timed out. (read timeout=180)")),
          ret |-> None]
    ELSE TryResponse(outcome.status, outcome.body)

\* line 103
HTTPErrorMessage(e) == IF e.response # None THEN e.response[1] ELSE e.str

\* line 106 with `except requests.RequestException` for `except Exception`
ExceptClausesRequestsOnly(e) ==
    IF e.type = "HTTPError"
    THEN [escaped |-> None,
          ret |-> Some([error |-> HTTPErrorMessage(e), success |-> FALSE]),
          sink |-> <<StError("Deep research HTTP error: " \o HTTPErrorMessage(e))>>]
    ELSE IF e.type \in {"ConnectionError", "ReadTimeout"}
    THEN [escaped |-> None,
          ret |-> Some([error |-> e.str, success |-> FALSE]),
          sink |-> <<StError("Deep research error: " \o e.str)>>]
    ELSE [escaped |-> Some(e), ret |-> None, sink |-> <<>>]

\* lines 102-105 with `raise` for the return of line 105
ExceptClausesReraise(e) ==
    IF e.type = "HTTPError"
    THEN [escaped |-> Some(e), ret |-> None,
          sink |-> <<StError("Deep research HTTP error: " \o HTTPErrorMessage(e))>>]
    ELSE IF e.type \in ExceptionClasses
    THEN [escaped |-> None,
          ret |-> Some([error |-> e.str, success |-> FALSE]),
          sink |-> <<StError("Deep research error: " \o e.str)>>]
    ELSE [escaped |-> Some(e), ret |-> None, sink |-> <<>>]

\* lines 105 and 108 returning the success form's members beside the error
ExceptClausesAllMembers(e) ==
    IF e.type = "HTTPError"
    THEN [escaped |-> None,
          ret |-> Some([error |-> HTTPErrorMessage(e), success |-> FALSE,
                        final_analysis |-> PyStr(""), sources_count |-> 0,
                        sources |-> PyList(<<>>)]),
          sink |-> <<StError("Deep research HTTP error: " \o HTTPErrorMessage(e))>>]
    ELSE IF e.type \in ExceptionClasses
    THEN [escaped |-> None,
          ret |-> Some([error |-> e.str, success |-> FALSE,
                        final_analysis |-> PyStr(""), sources_count |-> 0,
                        sources |-> PyList(<<>>)]),
          sink |-> <<StError("Deep research error: " \o e.str)>>]
    ELSE [escaped |-> Some(e), ret |-> None, sink |-> <<>>]

\* lines 102-108: the except clauses
ExceptClauses(e) ==
    IF e.type = "HTTPError"
    THEN [escaped |-> None,
          ret |-> Some([error |-> HTTPErrorMessage(e), success |-> FALSE]),
          sink |-> <<StError("Deep research HTTP error: " \o HTTPErrorMessage(e))>>]
    ELSE IF e.type \in ExceptionClasses
    THEN [escaped |-> None,
          ret |-> Some([error |-> e.str, success |-> FALSE]),
          sink |-> <<StError("Deep research error: " \o e.str)>>]
    ELSE [escaped |-> Some(e), ret |-> None, sink |-> <<>>]

\* lines 84-108: from the answer to the return
DeepResearchEnd(outcome) ==
    LET t == TryBlock(outcome) IN
    IF t.exc = None
    THEN [escaped |-> None, ret |-> t.ret, sink |-> <<>>]
    ELSE ExceptClauses(t.exc[1])

----------------------------------------------------------------------------
(* The script: keys, sidebar, button (lines 23-50 and 166-172)             *)

SecretValues(keys) == {None} \cup {Some(k) : k \in keys \ {""}}

\* lines 23-24: a key of st.secrets replaces the session's
Preload(sess, sec) ==
    [openai_api_key |->
        IF sec.OPENAI_API_KEY # None THEN sec.OPENAI_API_KEY[1] ELSE sess.openai_api_key,
     firecrawl_api_key |->
        IF sec.FIRECRAWL_API_KEY # None THEN sec.FIRECRAWL_API_KEY[1]
        ELSE sess.firecrawl_api_key]

\* lines 32-41: a non-empty sidebar entry is saved, an empty one changes nothing
Sidebar(sess, openai_in, firecrawl_in) ==
    [openai_api_key |-> IF Truthy(openai_in) THEN openai_in ELSE sess.openai_api_key,
     firecrawl_api_key |->
        IF Truthy(firecrawl_in) THEN firecrawl_in ELSE sess.firecrawl_api_key]

\* lines 23-41 of one script run
LoadKeys(sess, sec, openai_in, firecrawl_in) ==
    Sidebar(Preload(sess, sec), openai_in, firecrawl_in)

\* line 166: only disables the button.  A press that was already under way
\* when an input changed still arrives in the script run that sees the new
\* input, so the handler's own tests (lines 168-171) decide.
can_run(sess, topic) ==
    Truthy(sess.openai_api_key) /\ Truthy(sess.firecrawl_api_key) /\ Truthy(topic)

\* line 168 with `and` for `or`
HandlerBranchAnd(sess, topic) ==
    IF ~Truthy(sess.openai_api_key) /\ ~Truthy(sess.firecrawl_api_key) THEN "warn_keys"
    ELSE IF ~Truthy(topic) THEN "warn_topic"
    ELSE "run"

\* line 168 without the test of the Firecrawl key
HandlerBranchOpenAIOnly(sess, topic) ==
    IF ~Truthy(sess.openai_api_key) THEN "warn_keys"
    ELSE IF ~Truthy(topic) THEN "warn_topic"
    ELSE "run"

\* lines 168-172: the branch the button's handler takes
HandlerBranch(sess, topic) ==
    IF ~Truthy(sess.openai_api_key) \/ ~Truthy(sess.firecrawl_api_key) THEN "warn_keys"
    ELSE IF ~Truthy(topic) THEN "warn_topic"
    ELSE "run"

\* what a script run starts from: nothing of the previous run's page is kept
NoRun(research_calls) ==
    /\ agentCalls' = [research_agent |-> research_calls, elaboration_agent |-> 0]
    /\ toolCalls' = <<>>
    /\ requests' = <<>>
    /\ httpOutcome' = None
    /\ toolResult' = None
    /\ toolEscaped' = None
    /\ initial_report' = None
    /\ elaboration_input' = None
    /\ elaboration_output' = None
    /\ enhanced_report' = None
    /\ download' = None
    /\ fault' = None

ScriptIdle == state \in {"Idle", "Done", "Failed"}

Init ==
    /\ secrets \in [OPENAI_API_KEY : SecretValues({"sk-secret"}),
                    FIRECRAWL_API_KEY : SecretValues({"fc-secret"})]
    /\ environ \in {"", "fc-env"}
    /\ session = Preload([openai_api_key |-> "", firecrawl_api_key |-> ""], secrets)
    /\ research_topic = ""
    /\ clicked = FALSE
    /\ state = "Idle"
    /\ pc = "idle"
    /\ agentCalls = [research_agent |-> 0, elaboration_agent |-> 0]
    /\ toolCalls = <<>>
    /\ requests = <<>>
    /\ httpOutcome = None
    /\ toolResult = None
    /\ toolEscaped = None
    /\ initial_report = None
    /\ elaboration_input = None
    /\ elaboration_output = None
    /\ enhanced_report = None
    /\ download = None
    /\ fault = None
    /\ sink = <<>>

\* A script run in which the button is not pressed: the user edited a key or
\* the topic.
Rerender(openai_in, firecrawl_in, topic) ==
    /\ ScriptIdle
    /\ session' = LoadKeys(session, secrets, openai_in, firecrawl_in)
    /\ research_topic' = topic
    /\ clicked' = FALSE
    /\ state' = "Idle"
    /\ pc' = "idle"
    /\ NoRun(0)
    /\ sink' = <<>>
    /\ UNCHANGED <<secrets, environ>>

\* The button is pressed and a key is missing (lines 167-169).
ClickMissingKeys(openai_in, firecrawl_in, topic) ==
    /\ ScriptIdle
    /\ HandlerBranch(LoadKeys(session, secrets, openai_in, firecrawl_in), topic) = "warn_keys"
    /\ session' = LoadKeys(session, secrets, openai_in, firecrawl_in)
    /\ research_topic' = topic
    /\ clicked' = TRUE
    /\ state' = "Idle"
    /\ pc' = "idle"
    /\ NoRun(0)
    /\ sink' = <<StWarning("Please enter both API keys in the sidebar.")>>
    /\ UNCHANGED <<secrets, environ>>

\* The button is pressed and the topic is missing (lines 167, 170-171).
ClickMissingTopic(openai_in, firecrawl_in, topic) ==
    /\ ScriptIdle
    /\ HandlerBranch(LoadKeys(session, secrets, openai_in, firecrawl_in), topic) = "warn_topic"
    /\ session' = LoadKeys(session, secrets, openai_in, firecrawl_in)
    /\ research_topic' = topic
    /\ clicked' = TRUE
    /\ state' = "Idle"
    /\ pc' = "idle"
    /\ NoRun(0)
    /\ sink' = <<StWarning("Please enter a research topic.")>>
    /\ UNCHANGED <<secrets, environ>>

\* The button is pressed with both keys and a topic (lines 167, 172-175, 141-142):
\* the run starts and blocks in Runner.run(research_agent, topic).
StartResearch(openai_in, firecrawl_in, topic) ==
    /\ ScriptIdle
    /\ HandlerBranch(LoadKeys(session, secrets, openai_in, firecrawl_in), topic) = "run"
    /\ session' = LoadKeys(session, secrets, openai_in, firecrawl_in)
    /\ research_topic' = topic
    /\ clicked' = TRUE
    /\ state' = "Researching"
    /\ pc' = "research_agent"
    /\ NoRun(1)
    /\ sink' = <<Spinner("Conducting initial research...")>>
    /\ UNCHANGED <<secrets, environ>>

----------------------------------------------------------------------------
(* The run (lines 140-160 and 173-185)                                     *)

\* lines 149-156
ElaborationInput(topic, report) == [topic |-> topic, initial_report |-> report]

\* line 185 without str(e)
ExceptHandlerNoMessage(message) == <<StError("An error occurred")>>

\* lines 184-185
ExceptHandler(message) == <<StError("An error occurred: " \o message)>>

\* line 160 with initial_report for enhanced_report
RunResearchProcessReturnInitial(initial, enhanced) == initial

\* line 160: what run_research_process returns
RunResearchProcessReturn(initial, enhanced) == enhanced

\* lines 176-183
ShowReport(report) ==
    <<Markdown("## Enhanced Research Report"), Markdown(report),
      [kind |-> "download_button", text |-> report]>>

\* The research agent calls its tool: deep_research runs up to the request
\* (lines 57-91), with the arguments of instruction 1 (line 118).
ResearchAgentCallsTool(query) ==
    /\ pc = "research_agent"
    /\ toolCalls = <<>>
    /\ LET b == DeepResearchBegin(query, max_depth, time_limit, max_urls, session, environ) IN
       /\ toolCalls' = Append(toolCalls,
                              [query |-> query, max_depth |-> max_depth,
                               time_limit |-> time_limit, max_urls |-> max_urls])
       /\ requests' = IF b.request = None THEN requests ELSE Append(requests, b.request[1])
       /\ toolResult' = b.ret
       /\ sink' = sink \o b.sink
       /\ pc' = IF b.ret = None THEN "http" ELSE "research_agent"
    /\ UNCHANGED <<secrets, environ, session, research_topic, clicked, state, agentCalls,
                   httpOutcome, toolEscaped, initial_report, elaboration_input,
                   elaboration_output, enhanced_report, download, fault>>

\* requests.post ends and deep_research returns (lines 86-108).  An exception
\* that leaves the tool is the agent runtime's to deal with: it hands the error
\* to the language model or raises it from Runner.run, and then the handler of
\* lines 184-185 ends the run.
HttpReturns(outcome) ==
    /\ pc = "http"
    /\ httpOutcome' = Some(outcome)
    /\ LET r == DeepResearchEnd(outcome) IN
       /\ toolResult' = r.ret
       /\ toolEscaped' = r.escaped
       /\ IF r.escaped = None
          THEN /\ sink' = sink \o r.sink
               /\ pc' = "research_agent"
               /\ UNCHANGED <<state, fault>>
          ELSE \E raised \in BOOLEAN :
                  IF raised
                  THEN /\ state' = "Failed"
                       /\ pc' = "idle"
                       /\ fault' = Some([agent |-> "research_agent", from |-> "tool",
                                         message |-> r.escaped[1].str])
                       /\ sink' = sink \o ExceptHandler(r.escaped[1].str)
                  ELSE /\ sink' = sink
                       /\ pc' = "research_agent"
                       /\ UNCHANGED <<state, fault>>
    /\ UNCHANGED <<secrets, environ, session, research_topic, clicked, agentCalls,
                   toolCalls, requests, initial_report, elaboration_input,
                   elaboration_output, enhanced_report, download>>

\* lines 145-157 with the elaboration left out when the research found nothing
ResearchAgentReturnsSkipping(text) ==
    /\ pc = "research_agent"
    /\ toolCalls # <<>>
    /\ initial_report' = Some(text)
    /\ IF toolResult # None /\ toolResult[1].success
       THEN /\ elaboration_input' = Some(ElaborationInput(research_topic, text))
            /\ agentCalls' = [agentCalls EXCEPT !.elaboration_agent = @ + 1]
            /\ sink' = sink \o <<Expander(text),
                          Spinner("Enhancing the report with additional information...")>>
            /\ state' = "Elaborating"
            /\ pc' = "elaboration_agent"
            /\ UNCHANGED <<enhanced_report, download>>
       ELSE /\ enhanced_report' = Some(text)
            /\ download' = Some(text)
            /\ sink' = sink \o <<Expander(text)>> \o ShowReport(text)
            /\ state' = "Done"
            /\ pc' = "idle"
            /\ UNCHANGED <<elaboration_input, agentCalls>>
    /\ UNCHANGED <<secrets, environ, session, research_topic, clicked, toolCalls, requests,
                   httpOutcome, toolResult, toolEscaped, elaboration_output, fault>>

\* lines 145-148 in the other order: the initial report is shown inside the
\* second spinner
ResearchAgentReturnsSpinnerFirst(text) ==
    /\ pc = "research_agent"
    /\ toolCalls # <<>>
    /\ initial_report' = Some(text)
    /\ elaboration_input' = Some(ElaborationInput(research_topic, text))
    /\ agentCalls' = [agentCalls EXCEPT !.elaboration_agent = @ + 1]
    /\ sink' = sink \o <<Spinner("Enhancing the report with additional information..."),
                         Expander(text)>>
    /\ state' = "Elaborating"
    /\ pc' = "elaboration_agent"
    /\ UNCHANGED <<secrets, environ, session, research_topic, clicked, toolCalls, requests,
                   httpOutcome, toolResult, toolEscaped, elaboration_output,
                   enhanced_report, download, fault>>

\* Runner.run(research_agent, topic) returns (lines 142-157): the initial report
\* is shown and the run blocks in Runner.run(elaboration_agent, ...).
ResearchAgentReturns(text) ==
    /\ pc = "research_agent"
    /\ toolCalls # <<>>
    /\ initial_report' = Some(text)
    /\ elaboration_input' = Some(ElaborationInput(research_topic, text))
    /\ agentCalls' = [agentCalls EXCEPT !.elaboration_agent = @ + 1]
    /\ sink' = sink \o <<Expander(text),
                         Spinner("Enhancing the report with additional information...")>>
    /\ state' = "Elaborating"
    /\ pc' = "elaboration_agent"
    /\ UNCHANGED <<secrets, environ, session, research_topic, clicked, toolCalls, requests,
                   httpOutcome, toolResult, toolEscaped, elaboration_output,
                   enhanced_report, download, fault>>

\* line 142 inside a try of its own that reports the error and goes on to the
\* elaboration with an empty report
ResearchAgentRaisesGoesOn(message) ==
    /\ pc = "research_agent"
    /\ fault' = Some([agent |-> "research_agent", from |-> "runtime", message |-> message])
    /\ initial_report' = Some("")
    /\ elaboration_input' = Some(ElaborationInput(research_topic, ""))
    /\ agentCalls' = [agentCalls EXCEPT !.elaboration_agent = @ + 1]
    /\ sink' = sink \o ExceptHandler(message)
               \o <<Expander(""),
                    Spinner("Enhancing the report with additional information...")>>
    /\ state' = "Elaborating"
    /\ pc' = "elaboration_agent"
    /\ UNCHANGED <<secrets, environ, session, research_topic, clicked, toolCalls, requests,
                   httpOutcome, toolResult, toolEscaped, elaboration_output,
                   enhanced_report, download>>

\* Runner.run(research_agent, topic) raises, before or after the tool call
\* (lines 142, 175, 184-185).
ResearchAgentRaises(message) ==
    /\ pc = "research_agent"
    /\ fault' = Some([agent |-> "research_agent", from |-> "runtime", message |-> message])
    /\ sink' = sink \o ExceptHandler(message)
    /\ state' = "Failed"
    /\ pc' = "idle"
    /\ UNCHANGED <<secrets, environ, session, research_topic, clicked, agentCalls, toolCalls,
                   requests, httpOutcome, toolResult, toolEscaped, initial_report,
                   elaboration_input, elaboration_output, enhanced_report, download>>

\* Runner.run(elaboration_agent, ...) returns (lines 157-160, 175-183).
ElaborationAgentReturns(text) ==
    /\ pc = "elaboration_agent"
    /\ elaboration_output' = Some(text)
    /\ LET report == RunResearchProcessReturn(initial_report[1], text) IN
       /\ enhanced_report' = Some(report)
       /\ download' = Some(report)
       /\ sink' = sink \o ShowReport(report)
    /\ state' = "Done"
    /\ pc' = "idle"
    /\ UNCHANGED <<secrets, environ, session, research_topic, clicked, agentCalls, toolCalls,
                   requests, httpOutcome, toolResult, toolEscaped, initial_report,
                   elaboration_input, fault>>

\* line 157 in a loop that tries the elaboration again when it raises
ElaborationAgentRetried(message) ==
    /\ pc = "elaboration_agent"
    /\ agentCalls.elaboration_agent < 3
    /\ agentCalls' = [agentCalls EXCEPT !.elaboration_agent = @ + 1]
    /\ UNCHANGED <<secrets, environ, session, research_topic, clicked, state, pc, toolCalls,
                   requests, httpOutcome, toolResult, toolEscaped, initial_report,
                   elaboration_input, elaboration_output, enhanced_report, download,
                   fault, sink>>

\* lines 173-185 in a loop that starts the run again when the elaboration raises
ElaborationAgentRaisesRestarts(message) ==
    /\ pc = "elaboration_agent"
    /\ state' = "Researching"
    /\ pc' = "research_agent"
    /\ NoRun(1)
    /\ sink' = <<Spinner("Conducting initial research...")>>
    /\ UNCHANGED <<secrets, environ, session, research_topic, clicked>>

\* Runner.run(elaboration_agent, ...) raises (lines 157, 175, 184-185).
ElaborationAgentRaises(message) ==
    /\ pc = "elaboration_agent"
    /\ fault' = Some([agent |-> "elaboration_agent", from |-> "runtime",
                      message |-> message])
    /\ sink' = sink \o ExceptHandler(message)
    /\ state' = "Failed"
    /\ pc' = "idle"
    /\ UNCHANGED <<secrets, environ, session, research_topic, clicked, agentCalls, toolCalls,
                   requests, httpOutcome, toolResult, toolEscaped, initial_report,
                   elaboration_input, elaboration_output, enhanced_report, download>>

Next ==
    \/ \E o \in OpenAIKeys, f \in FirecrawlKeys, t \in Topics : Rerender(o, f, t)
    \/ \E o \in OpenAIKeys, f \in FirecrawlKeys, t \in Topics : ClickMissingKeys(o, f, t)
    \/ \E o \in OpenAIKeys, f \in FirecrawlKeys, t \in Topics : ClickMissingTopic(o, f, t)
    \/ \E o \in OpenAIKeys, f \in FirecrawlKeys, t \in Topics : StartResearch(o, f, t)
    \/ \E q \in Queries : ResearchAgentCallsTool(q)
    \/ \E o \in HttpOutcomes : HttpReturns(o)
    \/ \E t \in Texts : ResearchAgentReturns(t)
    \/ \E m \in FaultMessages : ResearchAgentRaises(m)
    \/ \E t \in Texts : ElaborationAgentReturns(t)
    \/ \E m \in FaultMessages : ElaborationAgentRaises(m)

Spec == Init /\ [][Next]_vars

\* a step of a started run: an agent invocation or the HTTP call returns or raises
RunStep ==
    \/ \E q \in Queries : ResearchAgentCallsTool(q)
    \/ \E o \in HttpOutcomes : HttpReturns(o)
    \/ \E t \in Texts : ResearchAgentReturns(t)
    \/ \E m \in FaultMessages : ResearchAgentRaises(m)
    \/ \E t \in Texts : ElaborationAgentReturns(t)
    \/ \E m \in FaultMessages : ElaborationAgentRaises(m)

\* The script run is blocked in asyncio.run until the run is over, and every
\* agent invocation and the HTTP call (timeout=180) end.
FairSpec == Spec /\ WF_vars(RunStep)

----------------------------------------------------------------------------
(* deep_research on its own: the tool as a function of st.session_state,   *)
(* the environment and the answer of the service.  The research agent      *)
(* calls it in any session, also in those the button's handler keeps a run *)
(* from.                                                                   *)

InitTool ==
    /\ secrets = [OPENAI_API_KEY |-> None, FIRECRAWL_API_KEY |-> None]
    /\ environ \in {"", "fc-env"}
    /\ session \in [openai_api_key : OpenAIKeys, firecrawl_api_key : FirecrawlKeys]
    /\ research_topic \in Topics
    /\ clicked = FALSE
    /\ state = "Researching"
    /\ pc = "research_agent"
    /\ agentCalls = [research_agent |-> 1, elaboration_agent |-> 0]
    /\ toolCalls = <<>>
    /\ requests = <<>>
    /\ httpOutcome = None
    /\ toolResult = None
    /\ toolEscaped = None
    /\ initial_report = None
    /\ elaboration_input = None
    /\ elaboration_output = None
    /\ enhanced_report = None
    /\ download = None
    /\ fault = None
    /\ sink = <<>>

NextTool ==
    \/ \E q \in Queries : ResearchAgentCallsTool(q)
    \/ \E o \in HttpOutcomes : HttpReturns(o)

ToolSpec == InitTool /\ [][NextTool]_vars

----------------------------------------------------------------------------
(* Properties                                                              *)

IsFailure(r) == r # None /\ ~r[1].success
IsSuccess(r) == r # None /\ r[1].success
NoAgentCalls == agentCalls = [research_agent |-> 0, elaboration_agent |-> 0]
Warnings ==
    {StWarning("Please enter both API keys in the sidebar."),
     StWarning("Please enter a research topic.")}
SinkKinds == {sink[i].kind : i \in DOMAIN sink}
LastOfSink == sink[Len(sink)]

\* C1: a press of the button with the model-provider key, the research-service
\* key or the topic empty leaves the orchestrator Idle, with no agent
\* invocation, no tool call and no HTTP request, and the page shows one
\* validation warning and nothing else.
C1_InvalidRequestStaysIdle ==
    (clicked /\ (session.openai_api_key = "" \/ session.firecrawl_api_key = ""
                 \/ research_topic = ""))
    => /\ state = "Idle"
       /\ NoAgentCalls
       /\ toolCalls = <<>>
       /\ requests = <<>>
       /\ Len(sink) = 1
       /\ sink[1] \in Warnings

C1_Witness ==
    /\ clicked
    /\ session.openai_api_key # ""
    /\ session.firecrawl_api_key = ""
    /\ research_topic # ""
    /\ sink = <<StWarning("Please enter both API keys in the sidebar.")>>

\* C2 (as claimed): after a response with status >= 400, whatever its body,
\* deep_research has returned a Failure whose message is not empty.
C2_HttpErrorHasMessage ==
    (/\ httpOutcome # None
     /\ httpOutcome[1].kind = "Response"
     /\ httpOutcome[1].status >= 400)
    => /\ IsFailure(toolResult)
       /\ toolResult[1].error # ""

\* C3: whatever requests.post met (no connection, a timeout, any status, a body
\* that is not JSON, JSON of any shape), deep_research returned a result dict,
\* either the success form or the failure form, and no exception left it.
C3_DeepResearchTotal ==
    /\ toolEscaped = None
    /\ httpOutcome # None =>
          /\ toolResult # None
          /\ \/ /\ IsSuccess(toolResult)
                /\ DOMAIN toolResult[1] =
                       {"success", "final_analysis", "sources_count", "sources"}
             \/ /\ IsFailure(toolResult)
                /\ DOMAIN toolResult[1] = {"error", "success"}

C3_Witness ==
    /\ httpOutcome = Some([kind |-> "Response", status |-> 200,
                           body |-> JsonBody("{\"data\": null}", PyDict([data |-> PyNone]))])
    /\ IsFailure(toolResult)
    /\ toolResult[1].error = "'NoneType' object has no attribute 'get'"

\* C4: once the research agent's invocation has returned, the elaboration
\* agent has been invoked, whether deep_research returned a Success or a
\* Failure (a timeout too) and whether or not the initial report is empty.
C4_ElaborationAlwaysInvoked ==
    initial_report # None
    => /\ agentCalls.elaboration_agent = 1
       /\ elaboration_input = Some(ElaborationInput(research_topic, initial_report[1]))
       /\ state \in {"Elaborating", "Done", "Failed"}
       /\ state = "Failed" => (fault # None /\ fault[1].agent = "elaboration_agent")

C4_Witness ==
    /\ httpOutcome = Some([kind |-> "ReadTimeout"])
    /\ IsFailure(toolResult)
    /\ initial_report = Some("")
    /\ agentCalls.elaboration_agent = 1
    /\ state = "Done"

\* C5: when an agent invocation raised, the run is Failed, the last thing on
\* the page is the error with the fault's message, and there is no final
\* report: nothing returned, no report text, no download.
C5_FaultEndsInFailed ==
    fault # None
    => /\ state = "Failed"
       /\ LastOfSink = StError("An error occurred: " \o fault[1].message)
       /\ enhanced_report = None
       /\ download = None
       /\ SinkKinds \cap {"markdown", "download_button"} = {}

C5_Witness ==
    /\ fault # None
    /\ fault[1].agent = "elaboration_agent"
    /\ initial_report # None
    /\ state = "Failed"

\* C6: a run is Failed only when an agent invocation raised from the runtime
\* itself; a failure of the tool is a returned value and on its own leaves the
\* run where it was.
C6_FailedOnlyByRuntimeFault ==
    /\ state = "Failed" => (fault # None /\ fault[1].from = "runtime")
    /\ (IsFailure(toolResult) /\ fault = None)
          => state \in {"Researching", "Elaborating", "Done"}

C6_Witness ==
    /\ state = "Done"
    /\ IsFailure(toolResult)
    /\ httpOutcome # None
    /\ httpOutcome[1].kind = "Response"
    /\ httpOutcome[1].status = 500

C9_SourcesCountIsLength ==
    IsSuccess(toolResult)
    => /\ HasLen(toolResult[1].sources)
       /\ toolResult[1].sources_count = PyLen(toolResult[1].sources)

C9_Witness ==
    /\ IsSuccess(toolResult)
    /\ toolResult[1].sources.t = "list"
    /\ toolResult[1].sources_count = 2

\* C10: in Done the report returned, shown and offered for download is the
\* elaboration agent's output of this run.
C10_FinalIsElaboration ==
    state = "Done"
    => /\ elaboration_output # None
       /\ enhanced_report = elaboration_output
       /\ download = elaboration_output
       /\ Len(sink) >= 2
       /\ sink[Len(sink) - 1] = Markdown(elaboration_output[1])
       /\ LastOfSink = [kind |-> "download_button", text |-> elaboration_output[1]]

C10_Witness ==
    /\ state = "Done"
    /\ initial_report = Some("report A")
    /\ elaboration_output = Some("")
    /\ enhanced_report = Some("")

\* the notifications of the run itself: its two spinners, the initial report
\* and the final report (the tool's own spinner and the errors left out)
IsProgress(e) ==
    /\ e.kind \in {"spinner", "expander", "markdown"}
    /\ e # Spinner("Performing deep research...")

ProgressOfSink == SelectSeq(sink, IsProgress)

\* C11: the run's notifications come in this order: "research in progress",
\* then the initial report once the research agent has returned, then
\* "elaboration in progress", then the final report once the elaboration agent
\* has returned; a run that has not come that far has written a prefix of it.
C11_NotificationOrder ==
    state # "Idle"
    => ProgressOfSink =
          <<Spinner("Conducting initial research...")>>
          \o (IF initial_report # None
              THEN <<Expander(initial_report[1]),
                     Spinner("Enhancing the report with additional information...")>>
              ELSE <<>>)
          \o (IF elaboration_output # None
              THEN <<Markdown("## Enhanced Research Report"),
                     Markdown(elaboration_output[1])>>
              ELSE <<>>)

C11_Witness ==
    /\ state = "Done"
    /\ Len(ProgressOfSink) = 5
    /\ initial_report = Some("report A")
    /\ elaboration_output = Some("report A")

\* C12: with the session's research-service key and FIRECRAWL_API_KEY both
\* empty, deep_research returns the missing-key Failure and sends no request.
C12_MissingKeyNoRequest ==
    (toolCalls # <<>> /\ session.firecrawl_api_key = "" /\ environ = "")
    => /\ toolResult = Some([error |-> "Missing FIRECRAWL_API_KEY", success |-> FALSE])
       /\ requests = <<>>
       /\ httpOutcome = None
       /\ StError("Missing FIRECRAWL_API_KEY") \in {sink[i] : i \in DOMAIN sink}

C12_Witness ==
    /\ toolCalls # <<>>
    /\ session.firecrawl_api_key = ""
    /\ environ = ""
    /\ IsFailure(toolResult)
    /\ requests = <<>>

IsResponse(o) == o # None /\ o[1].kind = "Response"

\* the member k of the data object of a JSON body: <<>> when the body has no
\* data object or the object has no member k
DataMember(parsed, k) ==
    IF "data" \notin DOMAIN parsed.dict THEN None
    ELSE IF parsed.dict["data"].t # "dict" THEN None
    ELSE IF k \notin DOMAIN parsed.dict["data"].dict THEN None
    ELSE Some(parsed.dict["data"].dict[k])

\* a JSON object whose data member is missing, null, not an object, or an
\* object that lacks or nulls finalAnalysis or sources
MalformedData(parsed) ==
    /\ parsed.t = "dict"
    /\ \E k \in {"finalAnalysis", "sources"} :
          DataMember(parsed, k) \in {None, Some(PyNone)}

\* C13 (as claimed): after a 2xx response whose JSON body has a missing or
\* malformed data member, deep_research has returned a Success, with "" for an
\* absent finalAnalysis, and the empty list and the count 0 for absent sources.
C13_MalformedDataIsSuccess ==
    (/\ IsResponse(httpOutcome)
     /\ httpOutcome[1].status \in 200..299
     /\ httpOutcome[1].body.json # None
     /\ MalformedData(httpOutcome[1].body.json[1]))
    => /\ IsSuccess(toolResult)
       /\ DataMember(httpOutcome[1].body.json[1], "finalAnalysis") = None
             => toolResult[1].final_analysis = PyStr("")
       /\ DataMember(httpOutcome[1].body.json[1], "sources") = None
             => (toolResult[1].sources = PyList(<<>>) /\ toolResult[1].sources_count = 0)

\* C14 (as claimed): after a response whose status is not 2xx, deep_research
\* has returned a Failure, and its message is the body's text when there is one.
C14_Non2xxIsFailure ==
    (IsResponse(httpOutcome) /\ httpOutcome[1].status \notin 200..299)
    => /\ IsFailure(toolResult)
       /\ httpOutcome[1].body.text # "" => toolResult[1].error = httpOutcome[1].body.text

C16_SessionKeyFirst ==
    \A i \in DOMAIN requests :
       requests[i].headers.Authorization =
          "Bearer " \o (IF session.firecrawl_api_key # ""
                        THEN session.firecrawl_api_key
                        ELSE environ)

C16_Witness ==
    /\ Len(requests) = 1
    /\ session.firecrawl_api_key = "fc-ui"
    /\ environ = "fc-env"
    /\ requests[1].headers.Authorization = "Bearer fc-ui"

\* the environment's key is what is sent when the session has none
C16_WitnessEnv ==
    /\ Len(requests) = 1
    /\ session.firecrawl_api_key = ""
    /\ requests[1].headers.Authorization = "Bearer fc-env"

\* C17: a started run reaches Done or Failed, given that each agent invocation
\* and the HTTP call end; on the way it never goes back: Researching is left
\* only for Elaborating or Failed, Elaborating only for Done or Failed.
C17_RunEnds ==
    /\ (state \in {"Researching", "Elaborating"}) ~> (state \in {"Done", "Failed"})
    /\ [][/\ state = "Researching" => state' \in {"Researching", "Elaborating", "Failed"}
          /\ state = "Elaborating" => state' \in {"Elaborating", "Done", "Failed"}]_vars

C17_Witness ==
    /\ state = "Failed"
    /\ fault # None
    /\ fault[1].agent = "elaboration_agent"
    /\ httpOutcome = Some([kind |-> "ReadTimeout"])

\* C18: when the research agent's invocation raised, the elaboration agent is
\* not invoked, no initial report is shown, and the last thing on the page is
\* the error with the fault's message.
C18_ResearchFaultStopsRun ==
    (fault # None /\ fault[1].agent = "research_agent")
    => /\ agentCalls.elaboration_agent = 0
       /\ initial_report = None
       /\ elaboration_input = None
       /\ "expander" \notin SinkKinds
       /\ Spinner("Enhancing the report with additional information...")
             \notin {sink[i] : i \in DOMAIN sink}
       /\ LastOfSink = StError("An error occurred: " \o fault[1].message)
       /\ \A i \in 1..(Len(sink) - 1) : sink[i] # LastOfSink
       /\ state = "Failed"

C18_Witness ==
    /\ fault # None
    /\ fault[1].agent = "research_agent"
    /\ IsSuccess(toolResult)
    /\ state = "Failed"

\* C19: in a run the button started the session's research-service key is not
\* empty, whatever the environment holds, so every tool call of the run sends
\* its request and none returns the missing-key Failure.
C19_NoMissingKeyInRun ==
    state # "Idle"
    => /\ session.firecrawl_api_key # ""
       /\ toolResult # Some([error |-> "Missing FIRECRAWL_API_KEY", success |-> FALSE])
       /\ Len(requests) = Len(toolCalls)
       /\ \A i \in DOMAIN requests :
             requests[i].headers.Authorization = "Bearer " \o session.firecrawl_api_key

\* a press of the button with only the environment's key does not start a run
C19_Witness ==
    /\ clicked
    /\ environ = "fc-env"
    /\ session.openai_api_key # ""
    /\ session.firecrawl_api_key = ""
    /\ research_topic # ""
    /\ state = "Idle"
    /\ toolCalls = <<>>

\* a run with the environment's key set sends the session's key
C19_WitnessRun ==
    /\ state = "Researching"
    /\ environ = "fc-env"
    /\ Len(requests) = 1
    /\ toolResult # None

=============================================================================
